---- MODULE Spec2Model ----
(***************************************************************************)
(* A model of StreamlinedImageProcessor (src/streamlined_processor.py):    *)
(* the per-image logo replacement find_and_replace_logo and the helpers it *)
(* calls, remove_old_logo and find_empty_space_for_logo, and the batch run *)
(* process_all around it.                                                  *)
(*                                                                         *)
(* The specifications that share the module:                               *)
(*   Spec          one call of find_and_replace_logo, stage by stage;      *)
(*   FairSpec      Spec with the fairness of a call that does not block;   *)
(*   SpecRerun     successive calls of find_and_replace_logo on one file;  *)
(*   SpecErase     one call of remove_old_logo on a bounded set of inputs; *)
(*   SpecSite      one call of find_empty_space_for_logo, likewise;        *)
(*   SpecDedupe    one call of _remove_overlapping_boxes;                  *)
(*   SpecFootprint the target size of the new logo;                        *)
(*   SpecBatch     one run of process_all: download, replace, upload.      *)
(*                                                                         *)
(* Images.  A PIL image is an object on the Python heap; a variable holds  *)
(* a reference to it.  The heap is the sequence `heap`, a reference is an  *)
(* index into it.  The pixel array of an image is held as its base content *)
(* (a named pattern, a function of the coordinates) and the list of the    *)
(* rectangles painted on it since, in order; PixelAt gives the array.      *)
(* Pixels are RGBA, one 0..255 value per channel.                          *)
(*                                                                         *)
(* Numbers.  Similarities are in thousandths (0.5 is 500), scale factors   *)
(* in hundredths (0.75 is 75), placement scores in 1/100000.               *)
(***************************************************************************)
EXTENDS Integers, Sequences, FiniteSets, TLC

VARIABLES
    heap,           \* the image objects: a sequence, a reference is an index
    \* ---- one call of remove_old_logo (SpecErase)
    e_pc,           \* "call", "done", or "idle" under the other specifications
    e_image,        \* the reference passed as `image`
    e_pos,          \* logo_position: <<x, y, w, h>>
    e_before,       \* history: the pixel content of `image` when the call began
    e_samples,      \* sample_regions as the call built it
    e_result,       \* the reference returned (0 before the call)
    \* ---- one call of find_empty_space_for_logo (SpecSite)
    s_pc,           \* "call", "done", or "idle"
    s_image,        \* the reference passed as `image`
    s_logo,         \* logo_size: <<logo_width, logo_height>>
    s_avoid,        \* avoid_regions: a sequence of <<x, y, w, h>>
    s_result,       \* [pos |-> <<x, y>>, fallback |-> the fallback branch ran]
    \* ---- one call of find_and_replace_logo (Spec)
    pc,             \* the stage the call is at; "idle" under the other specifications
    file,           \* the file at image_path: what it decodes to, and its format
    old_logo,       \* self.old_logo
    new_logo,       \* self.new_logo
    main_image,     \* reference (0: not loaded)
    result_image,   \* reference (0: none yet)
    matcher,        \* the scale loop: [k, best_match, best_similarity, best_scale]
    corners,        \* _find_logo_in_corners: [k, best_match, best_similarity]
    positions,      \* the list of found rectangles <<x, y, w, h>>
    placing,        \* [target, avoid_regions, new_pos] of the loop body
    ret,            \* what the caller receives: "none" before the return, "True", "False"
    error_logged,   \* the except clause ran (logger.error)
    stages,         \* history: the stages run after the search, in order
    h_erased,       \* history: the image remove_old_logo returned
    h_sited,        \* history: the image find_empty_space_for_logo was given
    h_input,        \* history: the image as decoded from the file by this call
    h_scales,       \* history: per scale of the loop, [scale, size, searched]
    h_match,        \* history: the searched scales: how many, and the first maximum
    h_corner,       \* history: the checked corner windows: how many, the first maximum
    run,            \* what the earlier calls on this file returned, in order
    \* ---- one call of _remove_overlapping_boxes (SpecDedupe)
    d_pc,           \* "call", "done", or "idle"
    d_boxes,        \* boxes: a sequence of <<x, y, w, h>>
    d_threshold,    \* overlap_threshold, in hundredths
    d_kept,         \* the indices in boxes of the boxes appended to filtered_boxes
    d_result,       \* filtered_boxes as returned
    \* ---- the target size of the new logo, lines 464-469 (SpecFootprint)
    t_pc,           \* "call", "done", or "idle"
    t_width,        \* main_image.width
    t_logo,         \* self.new_logo.size
    t_target,       \* <<target_width, target_height>>
    \* ---- one run of process_all (SpecBatch)
    b_pc,           \* where the run is; "idle" under the other specifications
    b_sections,     \* the sections fetched: per section, the number of its image objects
    s3_client,      \* self.s3_client is set (TRUE) or None (FALSE)
    b_loop,         \* the two loops: [sec, idx, inside]; sec from 1, idx from 0
    download_dir,   \* the image files under self.download_dir, in directory order
    results,        \* the results dictionary of process_all
    image_db_map,   \* image_db_map: file |-> [section_id, old_url]
    upload,         \* the upload loop: [pending, ok] and upload_stats as stats
    bucket,         \* the keys stored in the S3 bucket by this run
    db_calls,       \* the calls of update_image_url_in_db, in order
    h_batch         \* history: [attempted, reported, sent]

eraseVars == <<e_pc, e_image, e_pos, e_before, e_samples, e_result>>
siteVars == <<s_pc, s_image, s_logo, s_avoid, s_result>>
pipeVars == <<pc, file, old_logo, new_logo, main_image, result_image, matcher, corners,
              positions, placing, ret, error_logged, stages, h_erased, h_sited,
              h_input, h_scales, h_match, h_corner, run>>
dedupeVars == <<d_pc, d_boxes, d_threshold, d_kept, d_result>>
footVars == <<t_pc, t_width, t_logo, t_target>>
batchVars == <<b_pc, b_sections, s3_client, b_loop, download_dir, results, image_db_map,
               upload, bucket, db_calls, h_batch>>
unitVars == <<dedupeVars, footVars, batchVars>>
vars == <<heap, eraseVars, siteVars, pipeVars, unitVars>>

(***************************************************************************)
(* Images                                                                  *)
(***************************************************************************)
Channels == 1..4

Min(a, b) == IF a < b THEN a ELSE b
Max(a, b) == IF a > b THEN a ELSE b
Abs(a) == IF a < 0 THEN -a ELSE a

Grey == <<120, 120, 120, 255>>
LogoInk == <<200, 30, 30, 255>>
NewInk == <<30, 30, 200, 255>>

\* The old logo's artwork: ink and paper in a chequer, so that it is not one flat
\* colour.
LogoPaper == <<250, 250, 250, 255>>
OldLogoPixel(x, y) == IF (x + y) % 2 = 0 THEN LogoInk ELSE LogoPaper

\* The base content of an image, by pattern name: what Image.open decoded.
\* "two_logos" is a 48 x 44 grey image carrying the 20 x 16 old logo twice, in its
\* top-left and in its bottom-right corner.
BasePixel(base, x, y) ==
    CASE base = "flat" -> Grey
      [] base = "old_ink" -> OldLogoPixel(x, y)
      [] base = "two_logos" ->
            IF x < 20 /\ y < 16 THEN OldLogoPixel(x, y)
            ELSE IF x >= 28 /\ y >= 28 THEN OldLogoPixel(x - 28, y - 28)
            ELSE Grey
      [] base = "new_ink" -> NewInk
      [] base = "grad" -> <<(7 * x) % 256, (11 * y) % 256, (x + y) % 256, 255>>
      [] base = "stripes" -> IF x % 2 = 0 THEN <<10, 10, 10, 255>> ELSE <<250, 250, 250, 255>>
      [] base = "dark_bottom" ->
            IF y >= 23 THEN (IF (x + y) % 2 = 0 THEN <<0, 0, 0, 255>> ELSE <<90, 90, 90, 255>>)
            ELSE Grey
      [] base = "dark_left" ->
            IF x < 23 THEN (IF (x + y) % 2 = 0 THEN <<0, 0, 0, 255>> ELSE <<90, 90, 90, 255>>)
            ELSE Grey

\* A painted rectangle covers columns x0..x1 and rows y0..y1, both ends included.
Covers(op, x, y) == op.x0 <= x /\ x <= op.x1 /\ op.y0 <= y /\ y <= op.y1

\* The pixel at column x, row y: the last rectangle painted over it, else the base.
PixelAt(img, x, y) ==
    LET over == {i \in 1..Len(img.ops) : Covers(img.ops[i], x, y)}
    IN  IF over = {} THEN BasePixel(img.base, x, y)
        ELSE img.ops[CHOOSE i \in over : \A j \in over : j <= i].fill

Pixels(img) == [p \in (0..(img.w - 1)) \X (0..(img.h - 1)) |-> PixelAt(img, p[1], p[2])]

\* A copy that is the same object: what remove_old_logo would do without image.copy().
ImageCopy_Alias(hp, ref) == [heap |-> hp, ref |-> ref]

\* Image.copy(): a new object with the same content.
ImageCopy(hp, ref) == [heap |-> Append(hp, hp[ref]), ref |-> Len(hp) + 1]

\* A resize in place, as Image.thumbnail does it: the object itself takes the size.
ImageResize_InPlace(img, size) ==
    [self |-> [img EXCEPT !.w = size[1], !.h = size[2]],
     result |-> [img EXCEPT !.w = size[1], !.h = size[2]]]

\* Image.resize(size, LANCZOS): the object it is called on as the call leaves it, and
\* the new object returned.
ImageResize(img, size) ==
    [self |-> img, result |-> [img EXCEPT !.w = size[1], !.h = size[2]]]

\* ImageDraw.Draw(im).rectangle([x0, y0, x1, y1], fill): in place; PIL includes the
\* second corner, and clips to the image.
DrawRectangle(hp, ref, x0, y0, x1, y1, fill) ==
    [hp EXCEPT ![ref].ops = Append(@, [x0 |-> x0, y0 |-> y0, x1 |-> x1, y1 |-> y1, fill |-> fill])]

\* Image.crop reads transparent black outside the image.
CropPixel(img, x, y) ==
    IF 0 <= x /\ x < img.w /\ 0 <= y /\ y < img.h THEN PixelAt(img, x, y) ELSE <<0, 0, 0, 0>>

(***************************************************************************)
(* remove_old_logo                                                         *)
(***************************************************************************)
Margin == 10

\* (255, 255, 255) drawn on an RGBA image: PIL makes the pixel opaque.
White == <<255, 255, 255, 255>>

\* sample_regions: the four bands, each <<sx, sy, sw, sh>>, in the order left, right,
\* top, bottom; a band is appended only when the whole margin fits on its side.
sample_regions(img, pos) ==
    LET x == pos[1]
        y == pos[2]
        w == pos[3]
        h == pos[4]
    IN  (IF x - Margin >= 0 THEN << <<x - Margin, y, Margin, h>> >> ELSE << >>)
        \o (IF x + w + Margin <= img.w THEN << <<x + w, y, Margin, h>> >> ELSE << >>)
        \o (IF y - Margin >= 0 THEN << <<x, y - Margin, w, Margin>> >> ELSE << >>)
        \o (IF y + h + Margin <= img.h THEN << <<x, y + h, w, Margin>> >> ELSE << >>)

\* The sum of channel ch over the pixels lo..hi (counted row by row from 0) of the
\* crop r = <<sx, sy, sw, sh>>.
RECURSIVE SumCrop(_, _, _, _, _)
SumCrop(img, r, lo, hi, ch) ==
    IF lo > hi THEN 0
    ELSE IF lo = hi THEN CropPixel(img, r[1] + (lo % r[3]), r[2] + (lo \div r[3]))[ch]
    ELSE SumCrop(img, r, lo, (lo + hi) \div 2, ch)
         + SumCrop(img, r, (lo + hi) \div 2 + 1, hi, ch)

\* all_pixels: its length, and its per-channel sums.
RECURSIVE PixelCount(_)
PixelCount(regions) ==
    IF regions = << >> THEN 0
    ELSE Head(regions)[3] * Head(regions)[4] + PixelCount(Tail(regions))

RECURSIVE ChannelSum(_, _, _)
ChannelSum(img, regions, ch) ==
    IF regions = << >> THEN 0
    ELSE SumCrop(img, Head(regions), 0, Head(regions)[3] * Head(regions)[4] - 1, ch)
         + ChannelSum(img, Tail(regions), ch)

\* avg_color: int() of the per-channel mean of all_pixels, white when there is none.
avg_color(img, regions) ==
    IF regions = << >> \/ PixelCount(regions) = 0 THEN White
    ELSE [ch \in Channels |-> ChannelSum(img, regions, ch) \div PixelCount(regions)]

\* remove_old_logo(image, logo_position): the heap after the call, the reference
\* returned, and sample_regions.
remove_old_logo(hp, image, pos) ==
    LET c == ImageCopy(hp, image)
        regions == sample_regions(hp[image], pos)
        fill == avg_color(hp[image], regions)
    IN  [heap |-> DrawRectangle(c.heap, c.ref, pos[1], pos[2],
                                pos[1] + pos[3], pos[2] + pos[4], fill),
         ref |-> c.ref,
         samples |-> regions]

(***************************************************************************)
(* SpecErase: one call of remove_old_logo.  The inputs are the images and  *)
(* regions find_and_replace_logo can pass: a region of positive size lying *)
(* inside the image, with each kind of room (none, less than the margin,   *)
(* the margin exactly, more) on each of its four sides.                    *)
(***************************************************************************)
MaxSide == 2
ExtraRoom == 2

Rooms == {0, 1, Margin - 1, Margin, Margin + ExtraRoom}
ErasePatterns == {"flat", "grad", "stripes"}

\* An image of the given base content on which the old logo sits at pos.
ImageWithLogo(base, w, h, pos) ==
    [w |-> w, h |-> h, mode |-> "RGBA", base |-> base,
     ops |-> << [x0 |-> pos[1], y0 |-> pos[2], x1 |-> pos[1] + pos[3] - 1,
                 y1 |-> pos[2] + pos[4] - 1, fill |-> LogoInk] >>]

EraseIdle ==
    /\ e_pc = "idle"
    /\ e_image = 0
    /\ e_pos = <<0, 0, 0, 0>>
    /\ e_before = << >>
    /\ e_samples = << >>
    /\ e_result = 0

SiteIdle ==
    /\ s_pc = "idle"
    /\ s_image = 0
    /\ s_logo = <<0, 0>>
    /\ s_avoid = << >>
    /\ s_result = [pos |-> <<0, 0>>, fallback |-> FALSE]

DedupeIdle ==
    /\ d_pc = "idle"
    /\ d_boxes = << >>
    /\ d_threshold = 0
    /\ d_kept = << >>
    /\ d_result = << >>

FootprintIdle ==
    /\ t_pc = "idle"
    /\ t_width = 0
    /\ t_logo = <<0, 0>>
    /\ t_target = <<0, 0>>

\* results as process_all creates it, for a run that fetched n sections.
NewResults(n) ==
    [total_sections |-> n, sections_with_images |-> 0, total_images_found |-> 0,
     successful_downloads |-> 0, failed_downloads |-> 0, logo_replacements |-> 0,
     processed_files |-> << >>, files_with_logo_replaced |-> << >>,
     files_without_old_logo |-> << >>]

\* upload_stats as upload_processed_images_to_s3 creates it; skipped is the early
\* return {'uploaded': 0, 'failed': 0, 'skipped': 'S3 not configured'}.
NewUploadStats == [uploaded |-> 0, failed |-> 0, files |-> << >>, skipped |-> FALSE]

NoMap == [f \in {} |-> << >>]

BatchIdle ==
    /\ b_pc = "idle"
    /\ b_sections = << >>
    /\ s3_client = FALSE
    /\ b_loop = [sec |-> 0, idx |-> 0, inside |-> FALSE]
    /\ download_dir = << >>
    /\ results = NewResults(0)
    /\ image_db_map = NoMap
    /\ upload = [pending |-> << >>, ok |-> FALSE, stats |-> NewUploadStats]
    /\ bucket = {}
    /\ db_calls = << >>
    /\ h_batch = [attempted |-> 0, reported |-> << >>, sent |-> << >>]

UnitIdle == DedupeIdle /\ FootprintIdle /\ BatchIdle

NoImage == [w |-> 0, h |-> 0, mode |-> "", base |-> "", ops |-> << >>]

\* The histories of the searches before any search was made.
NoMatchYet == [n |-> 0, sim |-> 0, match |-> << >>, scale |-> 0]
NoCornerYet == [n |-> 0, sim |-> 0, win |-> << >>, wins |-> {}]

PipeIdle ==
    /\ pc = "idle"
    /\ file = [decodable |-> FALSE, format |-> "", image |-> NoImage]
    /\ old_logo = NoImage
    /\ new_logo = NoImage
    /\ main_image = 0
    /\ result_image = 0
    /\ matcher = [k |-> 0, best_match |-> << >>, best_similarity |-> 0, best_scale |-> 0]
    /\ corners = [k |-> 0, best_match |-> << >>, best_similarity |-> 0]
    /\ positions = << >>
    /\ placing = [target |-> <<0, 0>>, avoid_regions |-> << >>, new_pos |-> <<0, 0>>]
    /\ ret = "none"
    /\ error_logged = FALSE
    /\ stages = << >>
    /\ h_erased = NoImage
    /\ h_sited = NoImage
    /\ h_input = NoImage
    /\ h_scales = << >>
    /\ h_match = NoMatchYet
    /\ h_corner = NoCornerYet
    /\ run = << >>

InitErase ==
    /\ \E left \in Rooms, right \in Rooms, top \in Rooms, bottom \in Rooms,
          w \in 1..MaxSide, h \in 1..MaxSide, base \in ErasePatterns :
          LET pos == <<left, top, w, h>>
              img == ImageWithLogo(base, left + w + right, top + h + bottom, pos)
          IN  /\ heap = <<img>>
              /\ e_pos = pos
              /\ e_before = img
    /\ e_pc = "call"
    /\ e_image = 1
    /\ e_samples = << >>
    /\ e_result = 0
    /\ SiteIdle
    /\ PipeIdle
    /\ UnitIdle

\* result_image = self.remove_old_logo(image, logo_position)
Erase ==
    /\ e_pc = "call"
    /\ LET r == remove_old_logo(heap, e_image, e_pos)
       IN  /\ heap' = r.heap
           /\ e_result' = r.ref
           /\ e_samples' = r.samples
    /\ e_pc' = "done"
    /\ UNCHANGED <<e_image, e_pos, e_before, siteVars, pipeVars, unitVars>>

NextErase == Erase

SpecErase == InitErase /\ [][NextErase]_vars

\* ---- what the claims about remove_old_logo speak of
SameContent(a, b) == a.w = b.w /\ a.h = b.h /\ Pixels(a) = Pixels(b)

\* The cells of a sequence of <<sx, sy, sw, sh>> regions.
RegionCells(regions) ==
    UNION {(regions[i][1]..(regions[i][1] + regions[i][3] - 1))
           \X (regions[i][2]..(regions[i][2] + regions[i][4] - 1)) : i \in 1..Len(regions)}

ImageCells(img) == (0..(img.w - 1)) \X (0..(img.h - 1))

\* The cells of the region <<x, y, w, h>> itself.
PosCells(pos) == (pos[1]..(pos[1] + pos[3] - 1)) \X (pos[2]..(pos[2] + pos[4] - 1))

\* The border bands as section 4.3 of the specification describes them: up to Margin
\* pixels immediately outside the region on each side, clipped to the image.
ClippedBands(img, pos) ==
    LET x == pos[1]
        y == pos[2]
        w == pos[3]
        h == pos[4]
    IN  ((Max(0, x - Margin)..(x - 1)) \X (y..(y + h - 1)))
        \cup (((x + w)..(Min(img.w, x + w + Margin) - 1)) \X (y..(y + h - 1)))
        \cup ((x..(x + w - 1)) \X (Max(0, y - Margin)..(y - 1)))
        \cup ((x..(x + w - 1)) \X ((y + h)..(Min(img.h, y + h + Margin) - 1)))

(* C8: remove_old_logo is pure: when it has returned, the image passed in is the
   same object with the same size and pixels as before the call, and the filled
   rectangle is in another object, the one returned. *)
C8_InputUnchanged ==
    e_pc = "done" =>
        /\ SameContent(heap[e_image], e_before)
        /\ e_result # e_image
        /\ e_result \in DOMAIN heap

\* C8's case: the call has returned and did change pixels, in the returned copy.
C8_Witness ==
    /\ e_pc = "done"
    /\ ~SameContent(heap[e_result], e_before)

(* C9 as stated: when the border bands around the region (section 4.3: up to 10 px
   on each side, clipped to the image) all have one colour, every pixel of the
   region has that colour in the returned image. *)
C9_UniformBorderFill ==
    e_pc = "done" =>
        LET band == ClippedBands(e_before, e_pos)
        IN  \A c \in {PixelAt(e_before, p[1], p[2]) : p \in band} :
                (\A p \in band : PixelAt(e_before, p[1], p[2]) = c)
                => \A q \in PosCells(e_pos) : PixelAt(heap[e_result], q[1], q[2]) = c

(* C10 as stated: the pixels sampled are exactly those of the four bands of up to
   10 px clipped to the image, so a side with 1 to 9 px of room contributes its
   clipped band, and no sampled pixel lies outside the image. *)
C10_ClippedBandsSampled ==
    e_pc = "done" =>
        /\ RegionCells(e_samples) = ClippedBands(e_before, e_pos)
        /\ RegionCells(e_samples) \subseteq ImageCells(e_before)

(***************************************************************************)
(* find_empty_space_for_logo                                               *)
(***************************************************************************)
LogoMargin == 20

\* Image.convert('L') of one pixel: PIL's ITU-R 601-2 luma in 16-bit fixed point.
Luminance(px) == (19595 * px[1] + 38470 * px[2] + 7471 * px[3] + 32768) \div 65536

\* candidate_positions, in the order of the list: <<position_name, x, y>>.
candidate_positions(img_width, img_height, logo_width, logo_height) ==
    << <<"bottom-left", LogoMargin, img_height - logo_height - LogoMargin>>,
       <<"bottom-right", img_width - logo_width - LogoMargin,
         img_height - logo_height - LogoMargin>>,
       <<"top-left", LogoMargin, LogoMargin>>,
       <<"top-right", img_width - logo_width - LogoMargin, LogoMargin>>,
       <<"bottom-center", (img_width - logo_width) \div 2,
         img_height - logo_height - LogoMargin>>,
       <<"top-center", (img_width - logo_width) \div 2, LogoMargin>> >>

\* The bounds check of the loop: TRUE when the candidate is skipped.
OutOfBounds(x, y, logo_width, logo_height, img_width, img_height) ==
    x < 0 \/ y < 0 \/ x + logo_width > img_width \/ y + logo_height > img_height

\* The overlap test when only the first rectangle of avoid_regions is looked at.
overlaps_avoid_region_FirstOnly(x, y, logo_width, logo_height, avoid_regions) ==
    /\ Len(avoid_regions) > 0
    /\ LET a == avoid_regions[1]
       IN  ~(x + logo_width <= a[1] \/ x >= a[1] + a[3]
             \/ y + logo_height <= a[2] \/ y >= a[2] + a[4])

\* overlaps_avoid_region after the inner loop.
overlaps_avoid_region(x, y, logo_width, logo_height, avoid_regions) ==
    \E i \in 1..Len(avoid_regions) :
        LET a == avoid_regions[i]
        IN  ~(x + logo_width <= a[1] \/ x >= a[1] + a[3]
              \/ y + logo_height <= a[2] \/ y >= a[2] + a[4])

\* The sums of the luminance and of its square over the pixels lo..hi (counted row
\* by row from 0) of the region image_array[y:y+h, x:x+w].
RECURSIVE LumaSums(_, _, _, _, _, _)
LumaSums(img, x, y, w, lo, hi) ==
    IF lo > hi THEN <<0, 0>>
    ELSE IF lo = hi
         THEN LET l == Luminance(PixelAt(img, x + (lo % w), y + (lo \div w)))
              IN  <<l, l * l>>
    ELSE LET mid == (lo + hi) \div 2
             a == LumaSums(img, x, y, w, lo, mid)
             b == LumaSums(img, x, y, w, mid + 1, hi)
         IN  <<a[1] + b[1], a[2] + b[2]>>

\* The integer square root, by bisection between lo and hi.
RECURSIVE ISqrtIn(_, _, _)
ISqrtIn(v, lo, hi) ==
    IF lo >= hi THEN lo
    ELSE LET mid == (lo + hi + 1) \div 2
         IN  IF mid * mid <= v THEN ISqrtIn(v, mid, hi) ELSE ISqrtIn(v, lo, mid - 1)

ISqrt(v) == ISqrtIn(v, 0, 46340)

\* 'bottom' in position_name
IsBottom(position_name) ==
    position_name \in {"bottom-left", "bottom-right", "bottom-center"}

\* The scores of a candidate that passed both checks: intensity_score and
\* consistency_score in 1/10000, position_bonus and total_score in 1/100000, with
\* mean = s1/n and std = sqrt(n*s2 - s1^2)/n.  np.mean and np.std of an empty region
\* are NaN, and so is the total.
intensity_score(sums, n) == 10000 - (Abs(sums[1] - 128 * n) * 10000) \div (128 * n)

consistency_score(sums, n) ==
    10000 - Min((ISqrt(n * sums[2] - sums[1] * sums[1]) * 200) \div n, 10000)

position_bonus(position_name) == IF IsBottom(position_name) THEN 30000 ELSE 0

total_score(img, position_name, x, y, logo_width, logo_height) ==
    LET n == logo_width * logo_height
        sums == LumaSums(img, x, y, logo_width, 0, n - 1)
    IN  IF n <= 0 THEN [nan |-> TRUE, v |-> 0]
        ELSE [nan |-> FALSE,
              v |-> 4 * intensity_score(sums, n) + 4 * consistency_score(sums, n)
                    + position_bonus(position_name)]

\* The comparison with >=, under which the last of several equal candidates wins.
Better_OrEqual(total, best_score) == ~total.nan /\ total.v >= best_score

\* total_score > best_score: a comparison with NaN is False.
Better(total, best_score) == ~total.nan /\ total.v > best_score

\* The candidate loop from candidate k on: <<best_position, best_score>> at its end.
RECURSIVE ScanCandidates(_, _, _, _, _, _)
ScanCandidates(img, logo_size, avoid_regions, cands, k, best) ==
    IF k > Len(cands) THEN best
    ELSE LET c == cands[k]
             skip == \/ OutOfBounds(c[2], c[3], logo_size[1], logo_size[2], img.w, img.h)
                     \/ overlaps_avoid_region(c[2], c[3], logo_size[1], logo_size[2],
                                              avoid_regions)
             total == total_score(img, c[1], c[2], c[3], logo_size[1], logo_size[2])
         IN  IF skip THEN ScanCandidates(img, logo_size, avoid_regions, cands, k + 1, best)
             ELSE IF Better(total, best[2])
                  THEN ScanCandidates(img, logo_size, avoid_regions, cands, k + 1,
                                      <<c, total.v>>)
                  ELSE ScanCandidates(img, logo_size, avoid_regions, cands, k + 1, best)

\* A fallback at the top-left slot instead.
fallback_position_TopLeft(img_height, logo_height) == <<LogoMargin, LogoMargin>>

\* The fallback of the last lines: bottom-left with margin.
fallback_position(img_height, logo_height) ==
    <<LogoMargin, img_height - logo_height - LogoMargin>>

\* find_empty_space_for_logo(image, logo_size, avoid_regions): the (x, y) returned,
\* and whether the fallback branch returned it.  best_position None is << >>,
\* best_score starts at -1.
find_empty_space_for_logo(img, logo_size, avoid_regions) ==
    LET cands == candidate_positions(img.w, img.h, logo_size[1], logo_size[2])
        best == ScanCandidates(img, logo_size, avoid_regions, cands, 1, << << >>, -100000>>)
    IN  IF best[1] # << >>
        THEN [pos |-> <<best[1][2], best[1][3]>>, fallback |-> FALSE]
        ELSE [pos |-> fallback_position(img.h, logo_size[2]), fallback |-> TRUE]

(***************************************************************************)
(* SpecSite: one call of find_empty_space_for_logo.  The logo size has     *)
(* positive width and height; the image is narrower than the logo, too     *)
(* small for the margin, just large enough, or larger, so that every       *)
(* candidate is in turn out of bounds, equal to another, or on its own.    *)
(***************************************************************************)
MaxLogoSide == 3
SiteExtra == 5
MaxAvoid == 2

SitePatterns == {"flat", "grad", "dark_bottom", "dark_left"}
WidthRooms == {-1, LogoMargin - 1, LogoMargin, 2 * LogoMargin, 2 * LogoMargin + SiteExtra}
HeightRooms == {LogoMargin - 1, 2 * LogoMargin, 2 * LogoMargin + SiteExtra}

\* Rectangles to avoid, each lying inside the image as a matched rectangle does: the
\* bottom-left slot itself, the whole image, the strip that holds every bottom slot,
\* one that touches the bottom-left slot without overlapping it, and one pixel of the
\* bottom-left slot.
AvoidRects(w, h, lw, lh) ==
    {r \in { <<LogoMargin, h - lh - LogoMargin, lw, lh>>,
             <<0, 0, w, h>>,
             <<0, h - lh - LogoMargin, w, lh + LogoMargin>>,
             <<LogoMargin + lw, h - lh - LogoMargin, 1, lh>>,
             <<LogoMargin + lw - 1, h - LogoMargin - 1, 1, 1>> } :
        /\ r[1] >= 0 /\ r[2] >= 0 /\ r[3] > 0 /\ r[4] > 0
        /\ r[1] + r[3] <= w /\ r[2] + r[4] <= h}

SeqsUpTo(S, n) == UNION {[1..k -> S] : k \in 0..n}

InitSite ==
    /\ \E lw \in 2..MaxLogoSide, lh \in 2..MaxLogoSide, dw \in WidthRooms,
          dh \in HeightRooms, base \in SitePatterns :
          LET w == lw + dw
              h == lh + dh
          IN  /\ heap = << [w |-> w, h |-> h, mode |-> "RGBA", base |-> base, ops |-> << >>] >>
              /\ s_logo = <<lw, lh>>
              /\ s_avoid \in SeqsUpTo(AvoidRects(w, h, lw, lh), MaxAvoid)
    /\ s_pc = "call"
    /\ s_image = 1
    /\ s_result = [pos |-> <<0, 0>>, fallback |-> FALSE]
    /\ EraseIdle
    /\ PipeIdle
    /\ UnitIdle

\* new_x, new_y = self.find_empty_space_for_logo(image, logo_size, avoid_regions)
FindSite ==
    /\ s_pc = "call"
    /\ s_result' = find_empty_space_for_logo(heap[s_image], s_logo, s_avoid)
    /\ s_pc' = "done"
    /\ UNCHANGED <<heap, s_image, s_logo, s_avoid, eraseVars, pipeVars, unitVars>>

NextSite == FindSite

SpecSite == InitSite /\ [][NextSite]_vars

\* ---- what the claims about find_empty_space_for_logo speak of
SiteCands == candidate_positions(heap[s_image].w, heap[s_image].h, s_logo[1], s_logo[2])

\* The candidate slot k lies inside the image.
InBounds(k) ==
    /\ 0 <= SiteCands[k][2]
    /\ 0 <= SiteCands[k][3]
    /\ SiteCands[k][2] + s_logo[1] <= heap[s_image].w
    /\ SiteCands[k][3] + s_logo[2] <= heap[s_image].h

\* The candidate slot k shares at least one pixel with a rectangle of avoid_regions.
Intersects(k) ==
    \E i \in 1..Len(s_avoid) :
        /\ Max(SiteCands[k][2], s_avoid[i][1])
              < Min(SiteCands[k][2] + s_logo[1], s_avoid[i][1] + s_avoid[i][3])
        /\ Max(SiteCands[k][3], s_avoid[i][2])
              < Min(SiteCands[k][3] + s_logo[2], s_avoid[i][2] + s_avoid[i][4])

\* The candidates (by index) that are neither out of bounds nor overlapping.
Survivors == {k \in 1..Len(SiteCands) : InBounds(k) /\ ~Intersects(k)}

\* The candidate slot k lies entirely inside one rectangle of avoid_regions.
Covered(k) ==
    \E i \in 1..Len(s_avoid) :
        /\ s_avoid[i][1] <= SiteCands[k][2]
        /\ s_avoid[i][2] <= SiteCands[k][3]
        /\ SiteCands[k][2] + s_logo[1] <= s_avoid[i][1] + s_avoid[i][3]
        /\ SiteCands[k][3] + s_logo[2] <= s_avoid[i][2] + s_avoid[i][4]

\* The composite score of slot k in 1/100000: 0.4 * intensity_score
\* + 0.4 * consistency_score + 0.3 for the three bottom slots (1, 2 and 5).
SiteScore(k) ==
    LET n == s_logo[1] * s_logo[2]
        sums == LumaSums(heap[s_image], SiteCands[k][2], SiteCands[k][3], s_logo[1], 0, n - 1)
    IN  4 * intensity_score(sums, n) + 4 * consistency_score(sums, n)
        + (IF k \in {1, 2, 5} THEN 30000 ELSE 0)

(* C5 as stated: the position returned is never that of a candidate slot that a
   rectangle of avoid covers entirely (so with the bottom-left slot covered, it is not
   the bottom-left position). *)
C5_NeverCoveredSlot ==
    s_pc = "done" =>
        \A k \in 1..Len(SiteCands) :
            Covered(k) => s_result.pos # <<SiteCands[k][2], SiteCands[k][3]>>

(* C5 amended: when at least one candidate passes the bounds and overlap checks, the
   position returned is never that of a covered slot; when none passes, the position
   returned is the fallback (20, image_height - logo_height - 20), the bottom-left
   slot's own position, covered or not. *)
C5_NeverCoveredSlotUnlessFallback ==
    s_pc = "done" =>
        /\ Survivors # {} =>
              \A k \in 1..Len(SiteCands) :
                  Covered(k) => s_result.pos # <<SiteCands[k][2], SiteCands[k][3]>>
        /\ Survivors = {} => s_result.pos = <<SiteCands[1][2], SiteCands[1][3]>>

\* C5's case: the bottom-left slot is covered, another candidate survives and is returned.
C5_Witness ==
    /\ s_pc = "done"
    /\ Covered(1)
    /\ Survivors # {}
    /\ s_result.pos # <<SiteCands[1][2], SiteCands[1][3]>>

(* C6: find_empty_space_for_logo always returns a position; it takes the fallback
   branch exactly when every candidate is eliminated by the bounds or overlap checks,
   and the fallback is (20, image_height - logo_height - 20). *)
C6_FallbackIffAllEliminated ==
    s_pc = "done" =>
        /\ s_result.pos \in Int \X Int
        /\ s_result.fallback <=> Survivors = {}
        /\ s_result.fallback =>
              s_result.pos = <<20, heap[s_image].h - s_logo[2] - 20>>
        /\ ~s_result.fallback =>
              \E k \in Survivors : s_result.pos = <<SiteCands[k][2], SiteCands[k][3]>>

\* C6's case: the bottom-left slot is in bounds, every candidate is eliminated (by
\* the overlap check), and the fallback was returned.
C6_Witness ==
    /\ s_pc = "done"
    /\ Survivors = {}
    /\ s_result.fallback
    /\ InBounds(1)

(* C7: when candidates survive, the position returned is that of the survivor with
   the maximum composite score, and of the first such survivor in the order
   bottom-left, bottom-right, top-left, top-right, bottom-center, top-center. *)
C7_FirstMaxScore ==
    (s_pc = "done" /\ Survivors # {}) =>
        LET best == CHOOSE k \in Survivors :
                        /\ \A j \in Survivors : SiteScore(j) <= SiteScore(k)
                        /\ \A j \in Survivors : SiteScore(j) = SiteScore(k) => k <= j
        IN  s_result.pos = <<SiteCands[best][2], SiteCands[best][3]>>

\* C7's case: two survivors at different positions tie for the maximum and the
\* first-listed one is returned.
C7_WitnessTie ==
    /\ s_pc = "done"
    /\ \E k \in Survivors, j \in Survivors :
          /\ k < j
          /\ SiteScore(k) = SiteScore(j)
          /\ \A i \in Survivors : SiteScore(i) <= SiteScore(k)
          /\ <<SiteCands[k][2], SiteCands[k][3]>> # <<SiteCands[j][2], SiteCands[j][3]>>
          /\ s_result.pos = <<SiteCands[k][2], SiteCands[k][3]>>

(***************************************************************************)
(* _remove_overlapping_boxes                                               *)
(***************************************************************************)
\* The default of overlap_threshold, 0.5, in hundredths.
OverlapThreshold == 50

\* The test of the inner loop with >=, under which an overlap of exactly the
\* threshold also removes the box.
overlaps_significantly_OrEqual(box, existing_box, overlap_threshold) ==
    LET overlap_x == Max(0, Min(box[1] + box[3], existing_box[1] + existing_box[3])
                            - Max(box[1], existing_box[1]))
        overlap_y == Max(0, Min(box[2] + box[4], existing_box[2] + existing_box[4])
                            - Max(box[2], existing_box[2]))
    IN  100 * (overlap_x * overlap_y)
            >= overlap_threshold * Min(box[3] * box[4], existing_box[3] * existing_box[4])

\* overlap_area > overlap_threshold * min(box1_area, box2_area), both sides times 100.
overlaps_significantly(box, existing_box, overlap_threshold) ==
    LET overlap_x == Max(0, Min(box[1] + box[3], existing_box[1] + existing_box[3])
                            - Max(box[1], existing_box[1]))
        overlap_y == Max(0, Min(box[2] + box[4], existing_box[2] + existing_box[4])
                            - Max(box[2], existing_box[2]))
        overlap_area == overlap_x * overlap_y
        box1_area == box[3] * box[4]
        box2_area == existing_box[3] * existing_box[4]
    IN  100 * overlap_area > overlap_threshold * Min(box1_area, box2_area)

\* is_unique after the inner loop over filtered_boxes (given by their indices).
is_unique(boxes, k, kept, overlap_threshold) ==
    \A i \in 1..Len(kept) : ~overlaps_significantly(boxes[k], boxes[kept[i]], overlap_threshold)

\* The outer loop from box k on: the indices of the boxes in filtered_boxes at its end.
RECURSIVE filtered_from(_, _, _, _)
filtered_from(boxes, k, kept, overlap_threshold) ==
    IF k > Len(boxes) THEN kept
    ELSE IF is_unique(boxes, k, kept, overlap_threshold)
         THEN filtered_from(boxes, k + 1, Append(kept, k), overlap_threshold)
         ELSE filtered_from(boxes, k + 1, kept, overlap_threshold)

\* _remove_overlapping_boxes(boxes, overlap_threshold): the indices kept, and the list.
remove_overlapping_boxes(boxes, overlap_threshold) ==
    LET kept == IF boxes = << >> THEN << >> ELSE filtered_from(boxes, 1, << >>, overlap_threshold)
    IN  [kept |-> kept, boxes |-> [i \in 1..Len(kept) |-> boxes[kept[i]]]]

(***************************************************************************)
(* SpecDedupe: one call of _remove_overlapping_boxes.  The boxes overlap   *)
(* one another by nothing, a quarter, a half, three quarters or all of the *)
(* smaller one.                                                            *)
(***************************************************************************)
MaxBoxes == 3

BoxXs == {0, 2, 3}
BoxWidths == {2, 4}
BoxHeights == {1, 2}
Boxes == {<<x, 0, w, h>> : x \in BoxXs, w \in BoxWidths, h \in BoxHeights}
Thresholds == {OverlapThreshold, 25}

InitDedupe ==
    /\ d_pc = "call"
    /\ d_boxes \in SeqsUpTo(Boxes, MaxBoxes)
    /\ d_threshold \in Thresholds
    /\ d_kept = << >>
    /\ d_result = << >>
    /\ FootprintIdle
    /\ BatchIdle
    /\ heap = << >>
    /\ EraseIdle
    /\ SiteIdle
    /\ PipeIdle

\* filtered = self._remove_overlapping_boxes(boxes, overlap_threshold)
Dedupe ==
    /\ d_pc = "call"
    /\ LET r == remove_overlapping_boxes(d_boxes, d_threshold)
       IN  /\ d_kept' = r.kept
           /\ d_result' = r.boxes
    /\ d_pc' = "done"
    /\ UNCHANGED <<heap, d_boxes, d_threshold, eraseVars, siteVars, pipeVars, footVars,
                   batchVars>>

NextDedupe == Dedupe

SpecDedupe == InitDedupe /\ [][NextDedupe]_vars

\* ---- what the claim about _remove_overlapping_boxes speaks of
BoxCells(b) == (b[1]..(b[1] + b[3] - 1)) \X (b[2]..(b[2] + b[4] - 1))

\* The number of pixels boxes i and j share, and the smaller of their areas.
SharedArea(i, j) == Cardinality(BoxCells(d_boxes[i]) \cap BoxCells(d_boxes[j]))
SmallerArea(i, j) == Min(Cardinality(BoxCells(d_boxes[i])), Cardinality(BoxCells(d_boxes[j])))

KeptSet == {d_kept[i] : i \in 1..Len(d_kept)}

(* C11: the boxes returned are boxes of the input in the input's order, and box i is
   among them exactly when its overlap with every box kept before it is at most
   overlap_threshold times the smaller of the two areas. *)
C11_GreedyKeep ==
    d_pc = "done" =>
        /\ \A i \in 1..Len(d_kept) : d_kept[i] \in 1..Len(d_boxes)
        /\ \A i \in 1..(Len(d_kept) - 1) : d_kept[i] < d_kept[i + 1]
        /\ d_result = [i \in 1..Len(d_kept) |-> d_boxes[d_kept[i]]]
        /\ \A i \in 1..Len(d_boxes) :
              i \in KeptSet <=>
                  \A j \in KeptSet :
                      j < i => 100 * SharedArea(i, j) <= d_threshold * SmallerArea(i, j)

\* C11's case at the default threshold: a box overlapping a kept one by more than half
\* of the smaller area was dropped, and two boxes overlapping by exactly half and two
\* overlapping by less than half (but overlapping) were both kept.
C11_Witness ==
    /\ d_pc = "done"
    /\ d_threshold = 50
    /\ \E i \in 1..Len(d_boxes), j \in KeptSet :
          j < i /\ i \notin KeptSet /\ 2 * SharedArea(i, j) > SmallerArea(i, j)
    /\ \E i \in KeptSet, j \in KeptSet :
          i # j /\ SharedArea(i, j) > 0 /\ 2 * SharedArea(i, j) <= SmallerArea(i, j)

(***************************************************************************)
(* find_and_replace_logo                                                   *)
(***************************************************************************)
Threshold == 500
StrictThreshold == 600
MinTemplate == 10
MaxLogoWidth == 200
WidthDivisor == 8

scales == <<40, 50, 60, 75, 100, 125, 150>>

\* (int(logo.width * scale), int(logo.height * scale)); the products are not
\* negative, and int() of them is the floor of the exact product.
ScaledSize(logo, scale) == <<(logo.w * scale) \div 100, (logo.h * scale) \div 100>>

\* The condition under which a scale is searched.
ScaleSearched(new_width, new_height, img) ==
    /\ new_width > MinTemplate
    /\ new_height > MinTemplate
    /\ new_width < img.w
    /\ new_height < img.h

\* What cv2.matchTemplate / cv2.minMaxLoc may report: the library's result is an
\* input of the model.  TM_CCOEFF_NORMED lies in -1..1 (here in thousandths); the
\* location is one of the two ends of the response map.
Similarities == {-100, 500, 501, 900}
MatchLocs(img, w, h) == {<<0, 0>>, <<img.w - w, img.h - h>>}
CornerSimilarities == {-100, 600, 601, 800}

\* The image holds at (x, y) the very pixels (R, G, B) of the template.
ExactCopyAt(img, template, x, y) ==
    /\ x >= 0 /\ y >= 0 /\ x + template.w <= img.w /\ y + template.h <= img.h
    /\ \A i \in 0..(template.w - 1), j \in 0..(template.h - 1) :
          SubSeq(PixelAt(img, x + i, y + j), 1, 3) = SubSeq(PixelAt(template, i, j), 1, 3)

\* What matchTemplate / minMaxLoc report for the template resized to `size`, as
\* <<max_val, max_loc>>: where the template at its own size occurs pixel for pixel
\* in the image the correlation is 1.0 there, the maximum; otherwise any of the
\* values above.
MatchResults(img, template, size) ==
    LET copies == IF size = <<template.w, template.h>>
                  THEN {loc \in MatchLocs(img, size[1], size[2]) :
                           ExactCopyAt(img, template, loc[1], loc[2])}
                  ELSE {}
    IN  IF copies # {} THEN {1000} \X copies
        ELSE Similarities \X MatchLocs(img, size[1], size[2])

\* The same for one corner window <<corner_name, x, y, w, h>>: max_val alone.
CornerResults(img, template, win) ==
    IF <<win[4], win[5]>> = <<template.w, template.h>>
       /\ ExactCopyAt(img, template, win[2], win[3])
    THEN {1000}
    ELSE CornerSimilarities

\* The acceptance test with >=, which accepts a similarity equal to the threshold.
Accepted_AtThreshold(best_similarity, best_match, threshold) ==
    best_similarity >= threshold /\ best_match # << >>

\* best_similarity > threshold and best_match
Accepted(best_similarity, best_match, threshold) ==
    best_similarity > threshold /\ best_match # << >>

\* ---- _find_logo_in_corners
\* logo_sizes, as scale factors of the old logo, in the order of the list.
logo_sizes == <<100, 50, 75, 125>>

\* corner_positions for the size (w, h): <<corner_name, x, y, check_w, check_h>>.
corner_positions(img, w, h) ==
    << <<"bottom-left", 0, img.h - h, w, h>>,
       <<"bottom-right", img.w - w, img.h - h, w, h>>,
       <<"top-left", 0, 0, w, h>>,
       <<"top-right", img.w - w, 0, w, h>> >>

\* The k-th window of the two nested loops, k in 1..16.
CornerWindow(img, logo, k) ==
    LET size == ScaledSize(logo, logo_sizes[((k - 1) \div 4) + 1])
    IN  corner_positions(img, size[1], size[2])[((k - 1) % 4) + 1]

\* The check of the size alone, without the test of line 658 that the window lies
\* inside the image.
CornerChecked_SizeOnly(win, img) ==
    /\ win[4] > 0 /\ win[5] > 0

\* The window is checked: its size is positive and it lies inside the image.
CornerChecked(win, img) ==
    /\ win[4] > 0 /\ win[5] > 0
    /\ win[2] >= 0 /\ win[3] >= 0
    /\ win[2] + win[4] <= img.w /\ win[3] + win[5] <= img.h

\* The final test with >=, which returns a window whose similarity equals the threshold.
corner_result_AtThreshold(c, strict_threshold) ==
    IF c.best_match # << >> /\ c.best_similarity >= strict_threshold
    THEN <<c.best_match[2], c.best_match[3], c.best_match[4], c.best_match[5]>>
    ELSE << >>

\* What _find_logo_in_corners returns at the end of its loops: (x, y, w, h), or
\* None (here << >>).
corner_result(c, strict_threshold) ==
    IF c.best_match # << >> /\ c.best_similarity > strict_threshold
    THEN <<c.best_match[2], c.best_match[3], c.best_match[4], c.best_match[5]>>
    ELSE << >>

\* ---- the footprint of the new logo, and saving
\* target_width = min(200, main_image.width // 8);
\* target_height = int(target_width / (new_width / new_height)).
target_size(img, logo) ==
    LET target_width == Min(MaxLogoWidth, img.w \div WidthDivisor)
    IN  <<target_width, (target_width * logo.h) \div logo.w>>

\* Image.resize raises ValueError for a size with a side below 1.
ResizeRaises(size) == size[1] < 1 \/ size[2] < 1

\* result_image.convert('RGB') is applied when main_image.mode != 'RGBA' and the
\* file is not a PNG; main_image is the RGBA conversion made at the start.
saved_mode(main, result, original_format) ==
    IF main.mode # "RGBA" /\ original_format # "PNG" THEN "RGB" ELSE result.mode

\* Image.save raises OSError ("cannot write mode RGBA as JPEG").
SaveRaises(format, mode) == format = "JPEG" /\ mode = "RGBA"

\* except Exception: logger.error(...); return False
Except ==
    /\ pc' = "done"
    /\ ret' = "False"
    /\ error_logged' = TRUE

(***************************************************************************)
(* Spec: one call of find_and_replace_logo(image_path), a step per stage.  *)
(***************************************************************************)
ImageSizes == {<<24, 22>>, <<48, 44>>}
NewLogoSizes == {<<8, 4>>, <<8, 8>>}

Init ==
    /\ \E decodable \in BOOLEAN, format \in {"PNG", "JPEG"}, size \in ImageSizes,
          base \in {"flat", "grad"} :
          file = [decodable |-> decodable, format |-> format,
                  image |-> [w |-> size[1], h |-> size[2], mode |-> "RGB",
                             base |-> base, ops |-> << >>]]
    /\ \E size \in NewLogoSizes :
          new_logo = [w |-> size[1], h |-> size[2], mode |-> "RGBA",
                      base |-> "new_ink", ops |-> << >>]
    /\ old_logo = [w |-> 20, h |-> 16, mode |-> "RGBA", base |-> "old_ink", ops |-> << >>]
    /\ heap = << >>
    /\ pc = "start"
    /\ main_image = 0
    /\ result_image = 0
    /\ matcher = [k |-> 0, best_match |-> << >>, best_similarity |-> 0, best_scale |-> 0]
    /\ corners = [k |-> 0, best_match |-> << >>, best_similarity |-> 0]
    /\ positions = << >>
    /\ placing = [target |-> <<0, 0>>, avoid_regions |-> << >>, new_pos |-> <<0, 0>>]
    /\ ret = "none"
    /\ error_logged = FALSE
    /\ stages = << >>
    /\ h_erased = NoImage
    /\ h_sited = NoImage
    /\ h_input = NoImage
    /\ h_scales = << >>
    /\ h_match = NoMatchYet
    /\ h_corner = NoCornerYet
    /\ run = << >>
    /\ EraseIdle
    /\ SiteIdle
    /\ UnitIdle

\* Image.open(image_path).convert('RGBA'), and the three best_* locals.
Load ==
    /\ pc = "start"
    /\ IF ~file.decodable
       THEN /\ Except
            /\ UNCHANGED <<heap, main_image, matcher, h_input>>
       ELSE /\ heap' = Append(heap, [file.image EXCEPT !.mode = "RGBA"])
            /\ main_image' = Len(heap) + 1
            /\ matcher' = [k |-> 1, best_match |-> << >>, best_similarity |-> 0,
                           best_scale |-> 100]
            /\ h_input' = [file.image EXCEPT !.mode = "RGBA"]
            /\ pc' = "matching"
            /\ UNCHANGED <<ret, error_logged>>
    /\ UNCHANGED <<file, old_logo, new_logo, result_image, corners, positions, placing,
                   stages, h_erased, h_sited, eraseVars, siteVars, unitVars,
                   h_scales, h_match, h_corner, run>>

\* One pass of the scale loop whose scale is searched.
MatchScale ==
    /\ pc = "matching"
    /\ matcher.k <= Len(scales)
    /\ LET size == ScaledSize(old_logo, scales[matcher.k])
       IN  /\ ScaleSearched(size[1], size[2], heap[main_image])
           /\ \E res \in MatchResults(heap[main_image], old_logo, size) :
              LET max_val == res[1]
                  max_loc == res[2]
              IN
              /\ matcher' = IF max_val > matcher.best_similarity
                            THEN [k |-> matcher.k + 1,
                                  best_match |-> <<max_loc[1], max_loc[2], size[1], size[2]>>,
                                  best_similarity |-> max_val,
                                  best_scale |-> scales[matcher.k]]
                            ELSE [matcher EXCEPT !.k = @ + 1]
              /\ h_match' = IF h_match.n = 0 \/ max_val > h_match.sim
                            THEN [n |-> h_match.n + 1, sim |-> max_val,
                                  match |-> <<max_loc[1], max_loc[2], size[1], size[2]>>,
                                  scale |-> scales[matcher.k]]
                            ELSE [h_match EXCEPT !.n = @ + 1]
           /\ h_scales' = Append(h_scales, [scale |-> scales[matcher.k], size |-> size,
                                            searched |-> TRUE])
           /\ old_logo' = ImageResize(old_logo, size).self
    /\ UNCHANGED <<heap, pc, file, new_logo, main_image, result_image, corners,
                   positions, placing, ret, error_logged, stages, h_erased, h_sited,
                   eraseVars, siteVars, unitVars,
                   h_input, h_corner, run>>

\* One pass of the scale loop whose scale is not searched.
SkipScale ==
    /\ pc = "matching"
    /\ matcher.k <= Len(scales)
    /\ LET size == ScaledSize(old_logo, scales[matcher.k])
       IN  /\ ~ScaleSearched(size[1], size[2], heap[main_image])
           /\ h_scales' = Append(h_scales, [scale |-> scales[matcher.k], size |-> size,
                                            searched |-> FALSE])
    /\ matcher' = [matcher EXCEPT !.k = @ + 1]
    /\ UNCHANGED <<heap, pc, file, old_logo, new_logo, main_image, result_image, corners,
                   positions, placing, ret, error_logged, stages, h_erased, h_sited,
                   eraseVars, siteVars, unitVars,
                   h_input, h_match, h_corner, run>>

\* After the loop: positions = [best_match] when the match is accepted; otherwise
\* _find_logo_in_corners is called.
AcceptMatch ==
    /\ pc = "matching"
    /\ matcher.k > Len(scales)
    /\ IF Accepted(matcher.best_similarity, matcher.best_match, Threshold)
       THEN /\ positions' = <<matcher.best_match>>
            /\ pc' = "found"
            /\ UNCHANGED corners
       ELSE /\ positions' = << >>
            /\ pc' = "corners"
            /\ corners' = [k |-> 1, best_match |-> << >>, best_similarity |-> 0]
    /\ UNCHANGED <<heap, file, old_logo, new_logo, main_image, result_image, matcher,
                   placing, ret, error_logged, stages, h_erased, h_sited,
                   eraseVars, siteVars, unitVars,
                   h_input, h_scales, h_match, h_corner, run>>

\* One corner window that is checked.
CornerCheck ==
    /\ pc = "corners"
    /\ corners.k <= 16
    /\ LET win == CornerWindow(heap[main_image], old_logo, corners.k)
       IN  /\ CornerChecked(win, heap[main_image])
           /\ \E max_val \in CornerResults(heap[main_image], old_logo, win) :
              /\ corners' = IF max_val > corners.best_similarity
                            THEN [k |-> corners.k + 1,
                                  best_match |-> Append(win, max_val),
                                  best_similarity |-> max_val]
                            ELSE [corners EXCEPT !.k = @ + 1]
              /\ h_corner' = IF h_corner.n = 0 \/ max_val > h_corner.sim
                             THEN [n |-> h_corner.n + 1, sim |-> max_val, win |-> win,
                                   wins |-> h_corner.wins \cup {win}]
                             ELSE [h_corner EXCEPT !.n = @ + 1, !.wins = @ \cup {win}]
           /\ old_logo' = ImageResize(old_logo, <<win[4], win[5]>>).self
    /\ UNCHANGED <<heap, pc, file, new_logo, main_image, result_image, matcher,
                   positions, placing, ret, error_logged, stages, h_erased, h_sited,
                   eraseVars, siteVars, unitVars,
                   h_input, h_scales, h_match, run>>

\* One corner window that is passed over.
CornerSkip ==
    /\ pc = "corners"
    /\ corners.k <= 16
    /\ ~CornerChecked(CornerWindow(heap[main_image], old_logo, corners.k), heap[main_image])
    /\ corners' = [corners EXCEPT !.k = @ + 1]
    /\ UNCHANGED <<heap, pc, file, old_logo, new_logo, main_image, result_image, matcher,
                   positions, placing, ret, error_logged, stages, h_erased, h_sited,
                   eraseVars, siteVars, unitVars,
                   h_input, h_scales, h_match, h_corner, run>>

\* _find_logo_in_corners returns; positions = [logo_position] if it is not None.
CornerReturn ==
    /\ pc = "corners"
    /\ corners.k > 16
    /\ LET logo_position == corner_result(corners, StrictThreshold)
       IN  IF logo_position # << >>
           THEN positions' = <<logo_position>> /\ pc' = "found"
           ELSE positions' = << >> /\ pc' = "notfound"
    /\ UNCHANGED <<heap, file, old_logo, new_logo, main_image, result_image, matcher,
                   corners, placing, ret, error_logged, stages, h_erased, h_sited,
                   eraseVars, siteVars, unitVars,
                   h_input, h_scales, h_match, h_corner, run>>

\* The no-match outcome raised and caught by the except clause instead.
NoLogoFound_Raises ==
    /\ pc = "notfound"
    /\ Except
    /\ UNCHANGED <<heap, file, old_logo, new_logo, main_image, result_image, matcher,
                   corners, positions, placing, stages, h_erased, h_sited,
                   eraseVars, siteVars, unitVars,
                   h_input, h_scales, h_match, h_corner, run>>

\* The no-match outcome answered by searching the image once more.
NoLogoFound_Retries ==
    /\ pc = "notfound"
    /\ pc' = "matching"
    /\ matcher' = [k |-> 1, best_match |-> << >>, best_similarity |-> 0, best_scale |-> 100]
    /\ h_scales' = << >>
    /\ h_match' = NoMatchYet
    /\ UNCHANGED <<heap, file, old_logo, new_logo, main_image, result_image,
                   corners, positions, placing, ret, error_logged, stages, h_erased,
                   h_sited, eraseVars, siteVars, unitVars, h_input, h_corner, run>>

\* if not positions: return False
NoLogoFound ==
    /\ pc = "notfound"
    /\ ret' = "False"
    /\ pc' = "done"
    /\ UNCHANGED <<heap, file, old_logo, new_logo, main_image, result_image, matcher,
                   corners, positions, placing, error_logged, stages, h_erased, h_sited,
                   eraseVars, siteVars, unitVars,
                   h_input, h_scales, h_match, h_corner, run>>

\* result_image = main_image.copy(); then, for the found rectangle,
\* result_image = self.remove_old_logo(result_image, ...).
Erasing ==
    /\ pc = "found"
    /\ LET c == ImageCopy(heap, main_image)
           r == remove_old_logo(c.heap, c.ref, positions[1])
       IN  /\ heap' = r.heap
           /\ result_image' = r.ref
           /\ h_erased' = heap'[result_image']
    /\ stages' = Append(stages, "Erasing")
    /\ pc' = "placing"
    /\ UNCHANGED <<file, old_logo, new_logo, main_image, matcher, corners, positions,
                   placing, ret, error_logged, h_sited, eraseVars, siteVars, unitVars,
                   h_input, h_scales, h_match, h_corner, run>>

\* The target size, avoid_regions, and the call of find_empty_space_for_logo.
Placing ==
    /\ pc = "placing"
    /\ LET target == target_size(heap[main_image], new_logo)
           avoid_regions == <<positions[1]>>
           site == find_empty_space_for_logo(heap[result_image], target, avoid_regions)
       IN  placing' = [target |-> target, avoid_regions |-> avoid_regions,
                       new_pos |-> site.pos]
    /\ h_sited' = heap[result_image]
    /\ stages' = Append(stages, "Placing")
    /\ pc' = "compositing"
    /\ UNCHANGED <<heap, file, old_logo, new_logo, main_image, result_image, matcher,
                   corners, positions, ret, error_logged, h_erased, eraseVars, siteVars, unitVars,
                   h_input, h_scales, h_match, h_corner, run>>

\* The paste made on main_image instead of on the copy.
Compositing_OnMain ==
    /\ pc = "compositing"
    /\ stages' = Append(stages, "Compositing")
    /\ IF ResizeRaises(placing.target)
       THEN /\ Except
            /\ UNCHANGED <<heap, new_logo>>
       ELSE /\ heap' = DrawRectangle(heap, main_image,   placing.new_pos[1],
                                     placing.new_pos[2],
                                     placing.new_pos[1] + placing.target[1] - 1,
                                     placing.new_pos[2] + placing.target[2] - 1, NewInk)
            /\ new_logo' = ImageResize(new_logo, placing.target).self
            /\ pc' = "saving"
            /\ UNCHANGED <<ret, error_logged>>
    /\ UNCHANGED <<file, old_logo, main_image, result_image, matcher, corners,
                   positions, placing, h_erased, h_sited, eraseVars, siteVars, unitVars,
                   h_input, h_scales, h_match, h_corner, run>>

\* new_logo.resize(target) and result_image.paste(...): the new logo is opaque, so
\* the paste replaces the pixels target_width x target_height from new_pos.
Compositing ==
    /\ pc = "compositing"
    /\ stages' = Append(stages, "Compositing")
    /\ IF ResizeRaises(placing.target)
       THEN /\ Except
            /\ UNCHANGED <<heap, new_logo>>
       ELSE /\ heap' = DrawRectangle(heap, result_image, placing.new_pos[1],
                                     placing.new_pos[2],
                                     placing.new_pos[1] + placing.target[1] - 1,
                                     placing.new_pos[2] + placing.target[2] - 1, NewInk)
            /\ new_logo' = ImageResize(new_logo, placing.target).self
            /\ pc' = "saving"
            /\ UNCHANGED <<ret, error_logged>>
    /\ UNCHANGED <<file, old_logo, main_image, result_image, matcher, corners,
                   positions, placing, h_erased, h_sited, eraseVars, siteVars, unitVars,
                   h_input, h_scales, h_match, h_corner, run>>

\* if logo_replaced: convert back, result_image.save(image_path), return True.  save
\* opens the file for writing before it encodes: when it raises, the file is empty.
Saving ==
    /\ pc = "saving"
    /\ LET mode == saved_mode(heap[main_image], heap[result_image], file.format)
       IN  IF SaveRaises(file.format, mode)
           THEN /\ Except
                /\ file' = [file EXCEPT !.decodable = FALSE, !.image = NoImage]
                /\ UNCHANGED stages
           ELSE /\ file' = [file EXCEPT !.image = [heap[result_image] EXCEPT !.mode = mode]]
                /\ ret' = "True"
                /\ stages' = Append(stages, "Done")
                /\ pc' = "done"
                /\ UNCHANGED error_logged
    /\ UNCHANGED <<heap, old_logo, new_logo, main_image, result_image, matcher, corners,
                   positions, placing, h_erased, h_sited, eraseVars, siteVars, unitVars,
                   h_input, h_scales, h_match, h_corner, run>>

Next ==
    \/ Load
    \/ MatchScale
    \/ SkipScale
    \/ AcceptMatch
    \/ CornerCheck
    \/ CornerSkip
    \/ CornerReturn
    \/ NoLogoFound
    \/ Erasing
    \/ Placing
    \/ Compositing
    \/ Saving

Spec == Init /\ [][Next]_vars

\* Erasing and Placing have no condition but their place in the call, and they are
\* the only steps from it: the call takes one exactly when pc moves on from there.
ErasingMoves == pc = "found" /\ pc' = "placing"

PlacingMoves == pc = "placing" /\ pc' = "compositing"

\* The call runs on one thread and none of its steps blocks: a step that can be
\* taken is taken.
FairSpec ==
    /\ Init
    /\ [][Next]_vars
    /\ WF_vars(Load \/ MatchScale \/ SkipScale \/ AcceptMatch \/ CornerCheck \/ CornerSkip
                  \/ CornerReturn \/ NoLogoFound \/ Compositing \/ Saving)
    /\ WF_pc(ErasingMoves)
    /\ WF_pc(PlacingMoves)

\* ---- what the claims about find_and_replace_logo speak of
\* The scale loop has ended and the acceptance test has been made.
Searched == matcher.k > Len(scales) /\ pc # "matching"

\* The matcher's best match clears the acceptance threshold 0.5.
MatcherAccepted == matcher.best_similarity > 500

\* _find_logo_in_corners was called; it has returned.
FallbackRan == corners.k > 0
FallbackReturned == corners.k > 16 /\ pc # "corners"

\* The rectangle the corner fallback found: its best window when that window's
\* similarity exceeds 0.6, else none (<< >>).
FallbackRect ==
    IF corners.best_match # << >> /\ corners.best_similarity > 600
    THEN SubSeq(corners.best_match, 2, 5)
    ELSE << >>

(* C1: once the search has been made, the matcher's best match is the single
   found rectangle exactly when its similarity is above 0.5; the corner fallback was
   run exactly when it is not; when the fallback has returned a rectangle the run
   goes on as Found with that rectangle, and when it has returned none the run ends
   NotFound, returning False without having run any later stage. *)
C1_SearchTransitions ==
    Searched =>
        /\ MatcherAccepted <=> ~FallbackRan
        /\ MatcherAccepted => positions = <<matcher.best_match>>
        /\ (FallbackReturned /\ FallbackRect # << >>) =>
              /\ positions = <<FallbackRect>>
              /\ pc \in {"found", "placing", "compositing", "saving", "done"}
              /\ pc = "done" => stages # << >>
        /\ (FallbackReturned /\ FallbackRect = << >>) =>
              /\ positions = << >>
              /\ pc \in {"notfound", "done"}
              /\ pc = "done" => (ret = "False" /\ stages = << >>)

\* C1's case: the best match sits exactly on the threshold, is not accepted, the
\* fallback finds a window, and the run has gone through the stages with it.
C1_Witness ==
    /\ pc = "done"
    /\ matcher.best_similarity = 500
    /\ FallbackRect # << >>
    /\ positions = <<FallbackRect>>
    /\ stages # << >>

(* C2: when neither the matcher nor the corner fallback detects the old logo, the
   call returns False through the normal return: the except clause has not run. *)
C2_NoMatchIsNormalFalse ==
    (pc = "done" /\ Searched /\ ~MatcherAccepted /\ FallbackReturned /\ FallbackRect = << >>)
        => (ret = "False" /\ ~error_logged)

\* C2's case: a searched image in which nothing was detected, the call returned.
C2_Witness ==
    /\ pc = "done"
    /\ Searched
    /\ ~MatcherAccepted
    /\ FallbackReturned
    /\ FallbackRect = << >>
    /\ ret = "False"

(* C3 as stated: when the image cannot be decoded, what the caller receives differs
   from the no-match outcome, the return value False. *)
C3_DecodeErrorSurfaced ==
    (pc = "done" /\ main_image = 0) => ret # "False"

(* C4 as stated: for a found rectangle the run goes through Erasing, Placing,
   Compositing and Done in that order, the site is computed on the erased image with
   avoid equal to the found rectangle alone, and the call returns True. *)
C4_StagesInOrderThenTrue ==
    (pc = "done" /\ positions # << >>) =>
        /\ stages = <<"Erasing", "Placing", "Compositing", "Done">>
        /\ placing.avoid_regions = positions
        /\ SameContent(h_sited, h_erased)
        /\ ret = "True"

\* ---- what the claims about the scale loop speak of
\* round(n / 100): to the nearest integer, a half to the even one; n >= 0.
Round100(n) ==
    LET q == n \div 100
        r == n % 100
    IN  IF r < 50 THEN q
        ELSE IF r > 50 THEN q + 1
        ELSE IF q % 2 = 0 THEN q ELSE q + 1

(* C12 as stated: at every scale of the loop the template size is
   round(width * scale) x round(height * scale), and the scale is skipped exactly
   when that size is below 10 px in a dimension or exceeds the image in a dimension. *)
C12_RoundedSizeAndSkipRule ==
    \A i \in 1..Len(h_scales) :
        LET rounded == <<Round100(old_logo.w * h_scales[i].scale),
                         Round100(old_logo.h * h_scales[i].scale)>>
            degenerate == \/ rounded[1] < 10
                          \/ rounded[2] < 10
                          \/ rounded[1] > heap[main_image].w
                          \/ rounded[2] > heap[main_image].h
        IN  /\ h_scales[i].size = rounded
            /\ h_scales[i].searched <=> ~degenerate

(* C13 as stated: once the loop has ended, if at least one scale was searched the
   matcher holds a candidate, and its rectangle, scale and similarity are those of
   the maximum similarity among the searched scales; it holds none only when every
   scale was skipped. *)
C13_BestOfSearchedScales ==
    (pc # "start" /\ matcher.k > Len(scales)) =>
        /\ h_match.n > 0 =>
              /\ matcher.best_match = h_match.match
              /\ matcher.best_scale = h_match.scale
              /\ matcher.best_similarity = h_match.sim
        /\ matcher.best_match = << >> => h_match.n = 0

\* ---- what the claim about _find_logo_in_corners speaks of
\* The rectangle <<x, y, w, h>> of a window <<corner_name, x, y, w, h>>.
WindowRect(win) == <<win[2], win[3], win[4], win[5]>>

\* The windows at the four corner anchors of the image for each of the four sizes
\* (native, 0.5x, 0.75x, 1.25x) that have a positive size and lie inside the image.
ValidCornerWindows ==
    LET img == heap[main_image]
        sizes == {ScaledSize(old_logo, f) : f \in {100, 50, 75, 125}}
        at(sz) == {<<0, img.h - sz[2], sz[1], sz[2]>>,
                   <<img.w - sz[1], img.h - sz[2], sz[1], sz[2]>>,
                   <<0, 0, sz[1], sz[2]>>,
                   <<img.w - sz[1], 0, sz[1], sz[2]>>}
    IN  {r \in UNION {at(sz) : sz \in sizes} :
            /\ r[3] > 0 /\ r[4] > 0
            /\ r[1] >= 0 /\ r[2] >= 0
            /\ r[1] + r[3] <= img.w /\ r[2] + r[4] <= img.h}

(* C14: when _find_logo_in_corners has returned, the windows it checked are the four
   corner anchors at the four sizes that have a positive size and lie inside the
   image, and what it returned is the checked window of highest similarity when that
   similarity exceeds 0.6, and None otherwise. *)
C14_BestCornerWindow ==
    FallbackReturned =>
        /\ {WindowRect(win) : win \in h_corner.wins} = ValidCornerWindows
        /\ IF h_corner.n > 0 /\ h_corner.sim > 600
           THEN positions = <<WindowRect(h_corner.win)>>
           ELSE positions = << >>

\* C14's case: some windows were out of bounds and passed over, the best checked
\* window was not the first one checked, and it was returned.
C14_Witness ==
    /\ FallbackReturned
    /\ h_corner.n < 16
    /\ h_corner.n > 0
    /\ h_corner.sim > 600
    /\ h_corner.win[1] # "bottom-left"
    /\ positions = <<WindowRect(h_corner.win)>>

(***************************************************************************)
(* SpecFootprint: the target size of the new logo (lines 464-469) for one  *)
(* image width and one new logo: images narrower than 8 px, small, medium  *)
(* and wide enough for the 200 px cap; logos from tall to very wide.       *)
(***************************************************************************)
ImageWidths == {7, 8, 9, 24, 800, 1600, 1608, 4000}
NewLogoWidths == {1, 3, 8, 32, 400, 1000}
NewLogoHeights == {1, 2, 8, 100}

InitFootprint ==
    /\ t_pc = "call"
    /\ t_width \in ImageWidths
    /\ t_logo \in NewLogoWidths \X NewLogoHeights
    /\ t_target = <<0, 0>>
    /\ DedupeIdle
    /\ BatchIdle
    /\ heap = << >>
    /\ EraseIdle
    /\ SiteIdle
    /\ PipeIdle

\* new_width, new_height = self.new_logo.size; target_width = ...; target_height = ...
Footprint ==
    /\ t_pc = "call"
    /\ t_target' = target_size([w |-> t_width], [w |-> t_logo[1], h |-> t_logo[2]])
    /\ t_pc' = "done"
    /\ UNCHANGED <<heap, t_width, t_logo, eraseVars, siteVars, pipeVars, dedupeVars,
                   batchVars>>

NextFootprint == Footprint

SpecFootprint == InitFootprint /\ [][NextFootprint]_vars

(* C15 as stated: the target width is min(200, image_width / 8), the target height is
   that width divided by the new logo's aspect ratio width / height to within one
   pixel, and both are greater than 0. *)
C15_FootprintValid ==
    t_pc = "done" =>
        /\ t_target[1] = Min(200, t_width \div 8)
        /\ Abs(t_target[2] * t_logo[1] - t_target[1] * t_logo[2]) < t_logo[1]
        /\ t_target[1] > 0
        /\ t_target[2] > 0

(***************************************************************************)
(* SpecRerun: find_and_replace_logo called again on the same image_path    *)
(* after it has returned.  The file is a 48 x 44 image that carries the    *)
(* old logo twice; in it the matcher finds an exact occurrence at scale    *)
(* 1.0, so the corner search is never entered.                             *)
(***************************************************************************)
MaxRuns == 2

InitRerun ==
    /\ \E format \in {"PNG", "JPEG"} :
          file = [decodable |-> TRUE, format |-> format,
                  image |-> [w |-> 48, h |-> 44, mode |-> "RGB",
                             base |-> "two_logos", ops |-> << >>]]
    /\ \E size \in NewLogoSizes :
          new_logo = [w |-> size[1], h |-> size[2], mode |-> "RGBA",
                      base |-> "new_ink", ops |-> << >>]
    /\ old_logo = [w |-> 20, h |-> 16, mode |-> "RGBA", base |-> "old_ink", ops |-> << >>]
    /\ heap = << >>
    /\ pc = "start"
    /\ main_image = 0
    /\ result_image = 0
    /\ matcher = [k |-> 0, best_match |-> << >>, best_similarity |-> 0, best_scale |-> 0]
    /\ corners = [k |-> 0, best_match |-> << >>, best_similarity |-> 0]
    /\ positions = << >>
    /\ placing = [target |-> <<0, 0>>, avoid_regions |-> << >>, new_pos |-> <<0, 0>>]
    /\ ret = "none"
    /\ error_logged = FALSE
    /\ stages = << >>
    /\ h_erased = NoImage
    /\ h_sited = NoImage
    /\ h_input = NoImage
    /\ h_scales = << >>
    /\ h_match = NoMatchYet
    /\ h_corner = NoCornerYet
    /\ run = << >>
    /\ EraseIdle
    /\ SiteIdle
    /\ UnitIdle

\* The caller calls find_and_replace_logo(image_path) again: a new call starts on
\* the file as the last call left it, with the same templates; the objects of the
\* finished call are garbage.
Rerun ==
    /\ pc = "done"
    /\ Len(run) + 1 < MaxRuns
    /\ run' = Append(run, ret)
    /\ heap' = << >>
    /\ pc' = "start"
    /\ main_image' = 0
    /\ result_image' = 0
    /\ matcher' = [k |-> 0, best_match |-> << >>, best_similarity |-> 0, best_scale |-> 0]
    /\ corners' = [k |-> 0, best_match |-> << >>, best_similarity |-> 0]
    /\ positions' = << >>
    /\ placing' = [target |-> <<0, 0>>, avoid_regions |-> << >>, new_pos |-> <<0, 0>>]
    /\ ret' = "none"
    /\ error_logged' = FALSE
    /\ stages' = << >>
    /\ h_erased' = NoImage
    /\ h_sited' = NoImage
    /\ h_input' = NoImage
    /\ h_scales' = << >>
    /\ h_match' = NoMatchYet
    /\ h_corner' = NoCornerYet
    /\ UNCHANGED <<file, old_logo, new_logo, eraseVars, siteVars, unitVars>>

NextRerun ==
    \/ Load
    \/ MatchScale
    \/ SkipScale
    \/ AcceptMatch
    \/ Erasing
    \/ Placing
    \/ Compositing
    \/ Saving
    \/ Rerun

SpecRerun == InitRerun /\ [][NextRerun]_vars

(* C16 as stated: when a call has returned True, the next call on the same file, once
   it has returned, has returned False. *)
C16_SecondRunFindsNothing ==
    (pc = "done" /\ Len(run) = 1 /\ run[1] = "True") => ret = "False"

(* C17 as stated: after a run that ended Done or NotFound, the image the caller
   supplied, the file at image_path, still holds the pixels it had. *)
C17_CallerImageUnchanged ==
    (pc = "done" /\ ~error_logged) =>
        /\ file.decodable
        /\ SameContent(file.image, h_input)

(* C17 amended: the image object decoded from the file is never drawn on: after any
   run it holds the pixels that were decoded, and the erased and composited image is
   another object.  The file itself keeps its pixels when the run ends NotFound, and
   holds the pixels of the result when the run ends Done. *)
C17_DecodedImageUnchanged ==
    (pc = "done" /\ main_image # 0) =>
        /\ SameContent(heap[main_image], h_input)
        /\ result_image # main_image
        /\ (ret = "False" /\ ~error_logged) => SameContent(file.image, h_input)
        /\ ret = "True" => SameContent(file.image, heap[result_image])

\* C17's case: a run ended Done, its result differs from what was decoded.
C17_Witness ==
    /\ pc = "done"
    /\ ret = "True"
    /\ ~SameContent(heap[result_image], h_input)
    /\ SameContent(heap[main_image], h_input)

\* ---- what the claim about termination speaks of
\* The position of the call in the order in which its steps can follow one another.
Rank(p) ==
    CASE p = "start" -> 0
      [] p = "matching" -> 1
      [] p = "corners" -> 2
      [] p \in {"found", "notfound"} -> 3
      [] p = "placing" -> 4
      [] p = "compositing" -> 5
      [] p = "saving" -> 6
      [] p = "done" -> 7

(* C18: every call ends, with True or False; it never goes back to an earlier step, so
   the matcher's scale loop and the corner search are each entered at most once and
   each pass through them moves on to the next scale or window; a step that fails
   (the except clause runs) ends the call at once; and once the call has ended
   nothing more happens. *)
C18_TerminatesWithoutRetry ==
    /\ <>(pc = "done" /\ ret \in {"True", "False"})
    /\ [][/\ Rank(pc') >= Rank(pc)
          /\ (pc = "matching" /\ pc' = "matching") => matcher'.k = matcher.k + 1
          /\ (pc = "corners" /\ pc' = "corners") => corners'.k = corners.k + 1
          /\ (error_logged' /\ ~error_logged) => (pc' = "done" /\ ret' = "False")
          /\ pc = "done" => UNCHANGED vars]_vars

\* C18's case: a stage failed after the search, and the call ended with False.
C18_Witness ==
    /\ pc = "done"
    /\ ret = "False"
    /\ error_logged
    /\ stages # << >>
    /\ FallbackRan

(* C19: the old-logo and the new-logo template are never mutated by a run: no step
   of find_and_replace_logo, in whichever call and on whichever image it is taken,
   changes the size or the pixels of self.old_logo or of self.new_logo; so after
   any number of steps both are as they were loaded. *)
C19_TemplatesNeverMutated == [][old_logo' = old_logo /\ new_logo' = new_logo]_vars

\* A call that resized the old logo in the matcher and in the corner scan, resized
\* the new logo for the paste, and returned True.
C19_Witness ==
    /\ pc = "done"
    /\ ret = "True"
    /\ \E i \in 1..Len(h_scales) : h_scales[i].searched /\ h_scales[i].size # <<old_logo.w, old_logo.h>>
    /\ h_corner.n > 0
    /\ placing.target # <<new_logo.w, new_logo.h>>
    /\ old_logo = [w |-> 20, h |-> 16, mode |-> "RGBA", base |-> "old_ink", ops |-> << >>]

(* C20 as stated: remove_old_logo changes only pixels inside the region: for a region
   (x, y, w, h), every pixel of the returned image outside the columns x..x+w-1 and
   the rows y..y+h-1 equals the pixel of the input image at the same place. *)
C20_OnlyRegionChanged ==
    e_pc = "done" =>
        /\ heap[e_result].w = e_before.w
        /\ heap[e_result].h = e_before.h
        /\ \A p \in ImageCells(e_before) \ PosCells(e_pos) :
               PixelAt(heap[e_result], p[1], p[2]) = PixelAt(e_before, p[1], p[2])

\* The region of the returned image is filled with white.
FilledWhite == \A q \in PosCells(e_pos) : PixelAt(heap[e_result], q[1], q[2]) = White

(* C21 as stated: when no side of the region yields any border sample (section 4.3:
   the bands of up to 10 px clipped to the image are all empty), the region is filled
   with white (255,255,255), and white is used only in that case. *)
C21_WhiteOnlyWithoutSamples ==
    e_pc = "done" => (FilledWhite <=> ClippedBands(e_before, e_pos) = {})

(* C22: the rectangle the search stage produces, the matcher's accepted match or the
   corner fallback's window, lies fully inside the image and has positive size:
   x >= 0, y >= 0, w > 0, h > 0, x + w <= image width and y + h <= image height. *)
C22_SearchRectInsideImage ==
    positions # << >> =>
        LET x == positions[1][1]
            y == positions[1][2]
            w == positions[1][3]
            h == positions[1][4]
        IN  /\ x >= 0 /\ y >= 0
            /\ w > 0 /\ h > 0
            /\ x + w <= heap[main_image].w
            /\ y + h <= heap[main_image].h

\* The corner fallback produced a rectangle that ends on the image's right and bottom
\* edges, in an image too small for the largest of the four window sizes.
C22_Witness ==
    /\ pc = "found"
    /\ FallbackRan
    /\ positions[1][1] + positions[1][3] = heap[main_image].w
    /\ positions[1][2] + positions[1][4] = heap[main_image].h
    /\ ScaledSize(old_logo, 125)[1] > heap[main_image].w

(***************************************************************************)
(* SpecBatch: one run of process_all.  A file of the download directory is *)
(* named by its image, <<section, index>>: generate_filename gives each    *)
(* image of each section its own name.  What the network, S3 and the call  *)
(* of find_and_replace_logo answer are inputs of the steps.                *)
(***************************************************************************)
MaxImages == 3

\* The sections fetch_report_sections may return, each with the number of image
\* objects extract_image_urls finds in its content.
SectionLists ==
    {<< >>}
    \cup {<<a>> : a \in 0..MaxImages}
    \cup {q \in (0..MaxImages) \X (0..MaxImages) : q[1] + q[2] <= MaxImages}

\* A file left in the download directory by an earlier run.
StaleFile == <<0, 0>>

InitBatch ==
    /\ b_pc = "start"
    /\ b_sections \in SectionLists
    /\ s3_client \in BOOLEAN
    /\ b_loop = [sec |-> 0, idx |-> 0, inside |-> FALSE]
    /\ download_dir \in {<< >>, <<StaleFile>>}
    /\ results = NewResults(0)
    /\ image_db_map = NoMap
    /\ upload = [pending |-> << >>, ok |-> FALSE, stats |-> NewUploadStats]
    /\ bucket = {}
    /\ db_calls = << >>
    /\ h_batch = [attempted |-> 0, reported |-> << >>, sent |-> << >>]
    /\ heap = << >>
    /\ EraseIdle
    /\ SiteIdle
    /\ PipeIdle
    /\ DedupeIdle
    /\ FootprintIdle

\* How a call of download_image can go: requests.get or raise_for_status raises; the
\* content type is not image/*; the write of the chunks raises part way; img.verify()
\* raises; or all of it succeeds.
DownloadOutcomes == {"request_failed", "not_image", "write_failed", "verify_failed", "ok"}

\* download_image(url, filename, subfolder): the directory after the call and what
\* is returned, str(full_path) (here <<f>>) or False (here << >>).  The file is
\* opened for writing at line 254; the except clause does not remove it.
download_image(dir, f, outcome) ==
    [dir |-> IF outcome \in {"write_failed", "verify_failed", "ok"} THEN Append(dir, f) ELSE dir,
     path |-> IF outcome = "ok" THEN <<f>> ELSE << >>]

\* The counting without the else branch of lines 903-904.
count_image_NoFailed(res, downloaded_path, replaced) ==
    IF downloaded_path # << >>
    THEN [res EXCEPT !.successful_downloads = @ + 1,
                     !.logo_replacements = IF replaced THEN @ + 1 ELSE @,
                     !.files_with_logo_replaced =
                         IF replaced THEN Append(@, downloaded_path[1]) ELSE @,
                     !.files_without_old_logo =
                         IF replaced THEN @ ELSE Append(@, downloaded_path[1]),
                     !.processed_files = Append(@, downloaded_path[1])]
    ELSE res

\* Lines 884-904: what the body of the image loop does to results, given what
\* download_image and find_and_replace_logo returned.
count_image(res, downloaded_path, replaced) ==
    IF downloaded_path # << >>
    THEN [res EXCEPT !.successful_downloads = @ + 1,
                     !.logo_replacements = IF replaced THEN @ + 1 ELSE @,
                     !.files_with_logo_replaced =
                         IF replaced THEN Append(@, downloaded_path[1]) ELSE @,
                     !.files_without_old_logo =
                         IF replaced THEN @ ELSE Append(@, downloaded_path[1]),
                     !.processed_files = Append(@, downloaded_path[1])]
    ELSE [res EXCEPT !.failed_downloads = @ + 1]

\* cleanup_old_data (rmtree and mkdir), fetch_report_sections, and the new results.
Cleanup ==
    /\ b_pc = "start"
    /\ download_dir' = << >>
    /\ results' = NewResults(Len(b_sections))
    /\ image_db_map' = NoMap
    /\ b_loop' = [sec |-> 1, idx |-> 0, inside |-> FALSE]
    /\ b_pc' = "sections"
    /\ UNCHANGED <<b_sections, s3_client, upload, bucket, db_calls, h_batch>>
    /\ UNCHANGED <<heap, eraseVars, siteVars, pipeVars, dedupeVars, footVars>>

\* for section in sections: extract_image_urls, and if image_objects the two counters.
SectionBegin ==
    /\ b_pc = "sections"
    /\ b_loop.sec <= Len(b_sections)
    /\ ~b_loop.inside
    /\ IF b_sections[b_loop.sec] = 0
       THEN /\ b_loop' = [b_loop EXCEPT !.sec = @ + 1]
            /\ UNCHANGED results
       ELSE /\ b_loop' = [b_loop EXCEPT !.inside = TRUE, !.idx = 0]
            /\ results' = [results EXCEPT !.sections_with_images = @ + 1,
                                          !.total_images_found = @ + b_sections[b_loop.sec]]
    /\ UNCHANGED <<b_pc, b_sections, s3_client, download_dir, image_db_map, upload, bucket,
                   db_calls, h_batch>>
    /\ UNCHANGED <<heap, eraseVars, siteVars, pipeVars, dedupeVars, footVars>>

\* The body of for idx, img_obj in enumerate(image_objects), for one image.
ProcessImage ==
    /\ b_pc = "sections"
    /\ b_loop.sec <= Len(b_sections)
    /\ b_loop.inside
    /\ \E outcome \in DownloadOutcomes, replaced \in BOOLEAN :
          LET f == <<b_loop.sec, b_loop.idx>>
              d == download_image(download_dir, f, outcome)
              downloaded_path == d.path
          IN  /\ downloaded_path = << >> => ~replaced
              /\ download_dir' = d.dir
              /\ image_db_map' =
                     IF downloaded_path # << >>
                     THEN [k \in DOMAIN image_db_map \cup {f} |->
                              IF k = f THEN [section_id |-> f[1], old_url |-> <<"url", f>>]
                              ELSE image_db_map[k]]
                     ELSE image_db_map
              /\ results' = count_image(results, downloaded_path, replaced)
              /\ h_batch' = [h_batch EXCEPT !.attempted = @ + 1,
                                            !.reported = Append(@, [file |-> f,
                                                                    ok |-> downloaded_path # << >>])]
    /\ b_loop' = IF b_loop.idx + 1 < b_sections[b_loop.sec]
                 THEN [b_loop EXCEPT !.idx = @ + 1]
                 ELSE [sec |-> b_loop.sec + 1, idx |-> 0, inside |-> FALSE]
    /\ UNCHANGED <<b_pc, b_sections, s3_client, upload, bucket, db_calls>>
    /\ UNCHANGED <<heap, eraseVars, siteVars, pipeVars, dedupeVars, footVars>>

\* upload_processed_images_to_s3(image_db_map) is entered: the early return without
\* a client, else upload_stats and the files os.walk finds.
UploadBegin ==
    /\ b_pc = "sections"
    /\ b_loop.sec > Len(b_sections)
    /\ IF ~s3_client
       THEN /\ upload' = [upload EXCEPT !.stats = [NewUploadStats EXCEPT !.skipped = TRUE]]
            /\ b_pc' = "done"
       ELSE /\ upload' = [pending |-> download_dir, ok |-> FALSE, stats |-> NewUploadStats]
            /\ b_pc' = "upload"
    /\ UNCHANGED <<b_sections, s3_client, b_loop, download_dir, results, image_db_map,
                   bucket, db_calls, h_batch>>
    /\ UNCHANGED <<heap, eraseVars, siteVars, pipeVars, dedupeVars, footVars>>

\* upload_file_to_s3(local_path, s3_key): True when s3_client.upload_file returned,
\* False when it raised.
UploadFile ==
    /\ b_pc = "upload"
    /\ upload.pending # << >>
    /\ \E ok \in BOOLEAN :
          /\ bucket' = IF ok THEN bucket \cup {Head(upload.pending)} ELSE bucket
          /\ upload' = [upload EXCEPT !.ok = ok]
    /\ h_batch' = [h_batch EXCEPT !.sent = Append(@, Head(upload.pending))]
    /\ b_pc' = "uploaded"
    /\ UNCHANGED <<b_sections, s3_client, b_loop, download_dir, results, image_db_map,
                   db_calls>>
    /\ UNCHANGED <<heap, eraseVars, siteVars, pipeVars, dedupeVars, footVars>>

\* The update made for whichever way the upload went.
db_update_due_Always(ok, map, f) == map # NoMap /\ f \in DOMAIN map

\* Lines 793, 801 and 806: the call of update_image_url_in_db is made when the
\* upload returned True, a non-empty mapping was passed, and it holds the file.
db_update_due(ok, map, f) == ok /\ map # NoMap /\ f \in DOMAIN map

\* The rest of the loop body for the file: upload_stats, and the update of the
\* database.
RecordUpload ==
    /\ b_pc = "uploaded"
    /\ LET f == Head(upload.pending)
       IN  /\ upload' = [pending |-> Tail(upload.pending), ok |-> FALSE,
                         stats |-> IF upload.ok
                                   THEN [upload.stats EXCEPT
                                            !.uploaded = @ + 1,
                                            !.files = Append(@, [file |-> f, status |-> "uploaded"])]
                                   ELSE [upload.stats EXCEPT
                                            !.failed = @ + 1,
                                            !.files = Append(@, [file |-> f, status |-> "failed"])]]
           /\ db_calls' = IF db_update_due(upload.ok, image_db_map, f)
                          THEN Append(db_calls, [file |-> f,
                                                 section_id |-> image_db_map[f].section_id,
                                                 old_url |-> image_db_map[f].old_url,
                                                 new_url |-> <<"s3", f>>])
                          ELSE db_calls
    /\ b_pc' = "upload"
    /\ UNCHANGED <<b_sections, s3_client, b_loop, download_dir, results, image_db_map,
                   bucket, h_batch>>
    /\ UNCHANGED <<heap, eraseVars, siteVars, pipeVars, dedupeVars, footVars>>

\* return upload_stats; results['s3_upload'] = s3_results; return results.
UploadEnd ==
    /\ b_pc = "upload"
    /\ upload.pending = << >>
    /\ b_pc' = "done"
    /\ UNCHANGED <<b_sections, s3_client, b_loop, download_dir, results, image_db_map,
                   upload, bucket, db_calls, h_batch>>
    /\ UNCHANGED <<heap, eraseVars, siteVars, pipeVars, dedupeVars, footVars>>

NextBatch ==
    \/ Cleanup
    \/ SectionBegin
    \/ ProcessImage
    \/ UploadBegin
    \/ UploadFile
    \/ RecordUpload
    \/ UploadEnd

SpecBatch == InitBatch /\ [][NextBatch]_vars

(* C23: in process_all, after every processed image and at the end of the run, the
   counters of results agree: successful_downloads + failed_downloads is the number
   of images attempted, which at the end is total_images_found; logo_replacements is
   the length of files_with_logo_replaced; the lengths of files_with_logo_replaced
   and files_without_old_logo sum to successful_downloads, which is the length of
   processed_files. *)
C23_CountersConsistent ==
    /\ results.successful_downloads + results.failed_downloads = h_batch.attempted
    /\ b_pc \in {"upload", "uploaded", "done"} =>
           results.successful_downloads + results.failed_downloads = results.total_images_found
    /\ results.logo_replacements = Len(results.files_with_logo_replaced)
    /\ Len(results.files_with_logo_replaced) + Len(results.files_without_old_logo)
           = results.successful_downloads
    /\ results.successful_downloads = Len(results.processed_files)

\* The run has ended after a failed download, a replacement, and a file in which the
\* old logo was not found.
C23_Witness ==
    /\ b_pc = "done"
    /\ results.failed_downloads > 0
    /\ results.logo_replacements > 0
    /\ results.files_without_old_logo # << >>

(* C24: in upload_processed_images_to_s3 the database URL of an image is updated only
   after that image's upload to S3 has succeeded, and only if the file has an entry
   in image_db_map: a failed upload, or an upload skipped because there is no S3
   client, never brings a database update. *)
C24_DbUpdateOnlyAfterUpload ==
    /\ \A i \in 1..Len(db_calls) :
           /\ db_calls[i].file \in bucket
           /\ db_calls[i].file \in DOMAIN image_db_map
    /\ \A j \in 1..Len(upload.stats.files) :
           upload.stats.files[j].status = "failed" =>
               \A i \in 1..Len(db_calls) : db_calls[i].file # upload.stats.files[j].file
    /\ ~s3_client => db_calls = << >> /\ bucket = {}

\* The upload has ended with a database update made, an upload that failed, and a
\* file uploaded for which there was no entry in image_db_map.
C24_Witness ==
    /\ b_pc = "done"
    /\ db_calls # << >>
    /\ \E j \in 1..Len(upload.stats.files) :
           /\ upload.stats.files[j].status = "failed"
           /\ upload.stats.files[j].file \in DOMAIN image_db_map
    /\ \E f \in bucket : f \notin DOMAIN image_db_map

(* C25 as stated: in a run of process_all every file the upload step sends to S3
   belongs to an image whose download was reported successful in that run: a
   download reported as failed leaves no file in the download directory for the
   upload step to pick up. *)
C25_UploadsOnlyDownloaded ==
    /\ \A i \in 1..Len(h_batch.sent) :
           \E j \in 1..Len(h_batch.reported) :
               h_batch.reported[j].file = h_batch.sent[i] /\ h_batch.reported[j].ok
    /\ \A j \in 1..Len(h_batch.reported) :
           ~h_batch.reported[j].ok =>
               \A k \in 1..Len(download_dir) : download_dir[k] # h_batch.reported[j].file
====
